---- MODULE Spec2Model ----
(***************************************************************************)
(* Leaderboard-Sorter: the countback comparator (utils/tiebreakers.ts) and *)
(* the ranking engine (services/LeaderboardSorter.ts), driven by the       *)
(* records that ExcelReader.mergeTables builds.                            *)
(*                                                                         *)
(* Scores and spending amounts are integers (hundredths: the reader rounds *)
(* every cell to two decimals).  An optional field of a record (rank?,     *)
(* isTied?) is a set with at most one element: {} is "absent".             *)
(***************************************************************************)
EXTENDS Integers, Sequences, FiniteSets, TLC

\* ---------------------------------------------------------------- bounds
MaxPlayers == 3      \* rows of the points table
CbLen == 2           \* longest eventScores of the comparator runs
MaxZeros == 1        \* zeros inserted into one comparator run

\* parseScore yields any finite number: parseFloat("-1") is -1
Scores == {0 - 1, 0, 1, 2, 3}

\* the names of the points table; two rows may carry the same name
NameList == <<"Al", "Bo", "Cy">>
Names == {NameList[i] : i \in 1..Len(NameList)}

\* the rows of the points table, two events each: three rows of 2 points, two
\* of them with the same scores in different events, and a row without points
ScoreRows == {<<2, 0>>, <<0, 2>>, <<1, 1>>, <<0, 0>>}

\* the rows of the spending table
SpendingRows == {<<0, 0>>, <<1, 0>>}

VARIABLES
  pc,          \* "parse" | "sorted" | "stats" | "rerun" (ranking run); "cb" | "cbdone" (comparator run)
  players,     \* the caller's array: the records mergeTables pushed, in order
  sorted,      \* the array sortPlayers returns: indices of the records of players
  tieGroups,   \* the groups findTieGroups returned to markTiedPlayers
  cbA, cbB,    \* the two records handed to countbackCompare
  cbRes,       \* the result of countbackCompare at the first call
  zeros,       \* zeros inserted since
  stats,       \* what getStats returned to main, <<>> before the call
  cbDetailed   \* the result of detailedCountback at the first call

vars == <<pc, players, sorted, tieGroups, cbA, cbB, cbRes, zeros, stats, cbDetailed>>

\* ---------------------------------------------------------------- helpers
RECURSIVE Sum(_)
Sum(s) == IF s = <<>> THEN 0 ELSE Head(s) + Sum(Tail(s))

Sign(n) == IF n < 0 THEN 0 - 1 ELSE IF n > 0 THEN 1 ELSE 0

\* number[].sort((a, b) => b - a): insertion of x into a descending run
RECURSIVE InsertDesc(_, _)
InsertDesc(s, x) ==
  IF s = <<>> THEN <<x>>
  ELSE IF x - s[Len(s)] > 0
       THEN Append(InsertDesc(SubSeq(s, 1, Len(s) - 1), x), s[Len(s)])
       ELSE Append(s, x)

RECURSIVE SortDesc(_)
SortDesc(s) ==
  IF s = <<>> THEN <<>>
  ELSE InsertDesc(SortDesc(SubSeq(s, 1, Len(s) - 1)), s[Len(s)])

IsPositive(x) == x > 0

\* p.eventScores.filter(s => s > 0).sort((a, b) => b - a)
Profile(p) == SortDesc(SelectSeq(p.eventScores, IsPositive))

\* pScores[i] || 0  (i is 1-based here)
At(s, i) == IF i <= Len(s) /\ s[i] # 0 THEN s[i] ELSE 0

\* pScores.filter(s => s === v).length
Occurrences(s, v) == Cardinality({k \in 1..Len(s) : s[k] = v})

\* CountbackWalk with the occurrence test written >= instead of >
RECURSIVE CountbackWalkGe(_, _, _)
CountbackWalkGe(p1Scores, p2Scores, i) ==
  LET maxLength == IF Len(p1Scores) > Len(p2Scores) THEN Len(p1Scores) ELSE Len(p2Scores)
      score1 == At(p1Scores, i)
      score2 == At(p2Scores, i)
      count1 == Occurrences(p1Scores, score1)
      count2 == Occurrences(p2Scores, score2)
  IN IF i > maxLength THEN 0
     ELSE IF score1 > score2 THEN 0 - 1
     ELSE IF score2 > score1 THEN 1
     ELSE IF score1 = score2 /\ score1 > 0 /\ count1 >= count2 THEN 0 - 1
     ELSE IF score1 = score2 /\ score1 > 0 /\ count2 > count1 THEN 1
     ELSE CountbackWalkGe(p1Scores, p2Scores, i + 1)

\* CountbackWalk with the occurrence test reversed: fewer occurrences win
RECURSIVE CountbackWalkFewer(_, _, _)
CountbackWalkFewer(p1Scores, p2Scores, i) ==
  LET maxLength == IF Len(p1Scores) > Len(p2Scores) THEN Len(p1Scores) ELSE Len(p2Scores)
      score1 == At(p1Scores, i)
      score2 == At(p2Scores, i)
      count1 == Occurrences(p1Scores, score1)
      count2 == Occurrences(p2Scores, score2)
  IN IF i > maxLength THEN 0
     ELSE IF score1 > score2 THEN 0 - 1
     ELSE IF score2 > score1 THEN 1
     ELSE IF score1 = score2 /\ score1 > 0 /\ count1 < count2 THEN 0 - 1
     ELSE IF score1 = score2 /\ score1 > 0 /\ count2 < count1 THEN 1
     ELSE CountbackWalkFewer(p1Scores, p2Scores, i + 1)

\* the loop of countbackCompare from position i on
RECURSIVE CountbackWalk(_, _, _)
CountbackWalk(p1Scores, p2Scores, i) ==
  LET maxLength == IF Len(p1Scores) > Len(p2Scores) THEN Len(p1Scores) ELSE Len(p2Scores)
      score1 == At(p1Scores, i)
      score2 == At(p2Scores, i)
      count1 == Occurrences(p1Scores, score1)
      count2 == Occurrences(p2Scores, score2)
  IN IF i > maxLength THEN 0
     ELSE IF score1 > score2 THEN 0 - 1
     ELSE IF score2 > score1 THEN 1
     ELSE IF score1 = score2 /\ score1 > 0 /\ count1 > count2 THEN 0 - 1
     ELSE IF score1 = score2 /\ score1 > 0 /\ count2 > count1 THEN 1
     ELSE CountbackWalk(p1Scores, p2Scores, i + 1)

\* countbackCompare without the filter of the scores that are not positive
countbackCompareNoFilter(p1, p2) ==
  CountbackWalk(SortDesc(p1.eventScores), SortDesc(p2.eventScores), 1)

countbackCompare(p1, p2) == CountbackWalk(Profile(p1), Profile(p2), 1)

\* getScoreFrequency: the Map from each positive score of the record to the
\* number of its occurrences
getScoreFrequency(player) ==
  [v \in {player.eventScores[k] : k \in {j \in 1..Len(player.eventScores) :
                                            player.eventScores[j] > 0}} |->
     Occurrences(player.eventScores, v)]

\* Array.from(frequency.entries()).sort(...): the [score, count] entries by
\* score descending (the keys of a Map are distinct, so the count never
\* decides the order)
RECURSIVE SortedEntries(_)
SortedEntries(frequency) ==
  IF DOMAIN frequency = {} THEN <<>>
  ELSE LET top == CHOOSE v \in DOMAIN frequency : \A w \in DOMAIN frequency : w <= v
       IN <<(<<top, frequency[top]>>)>> \o
          SortedEntries([w \in DOMAIN frequency \ {top} |-> frequency[w]])

\* DetailedWalk comparing the counts before the scores
RECURSIVE DetailedWalkCountFirst(_, _, _)
DetailedWalkCountFirst(freq1, freq2, i) ==
  LET maxLength == IF Len(freq1) > Len(freq2) THEN Len(freq1) ELSE Len(freq2)
      e1 == IF i <= Len(freq1) THEN freq1[i] ELSE <<0, 0>>
      e2 == IF i <= Len(freq2) THEN freq2[i] ELSE <<0, 0>>
  IN IF i > maxLength THEN 0
     ELSE IF e1[2] > e2[2] THEN 0 - 1
     ELSE IF e2[2] > e1[2] THEN 1
     ELSE IF e1[1] > e2[1] THEN 0 - 1
     ELSE IF e2[1] > e1[1] THEN 1
     ELSE DetailedWalkCountFirst(freq1, freq2, i + 1)

\* the loop of detailedCountback from position i on; an entry past the end
\* of an array is [0, 0]
RECURSIVE DetailedWalk(_, _, _)
DetailedWalk(freq1, freq2, i) ==
  LET maxLength == IF Len(freq1) > Len(freq2) THEN Len(freq1) ELSE Len(freq2)
      e1 == IF i <= Len(freq1) THEN freq1[i] ELSE <<0, 0>>
      e2 == IF i <= Len(freq2) THEN freq2[i] ELSE <<0, 0>>
  IN IF i > maxLength THEN 0
     ELSE IF e1[1] > e2[1] THEN 0 - 1
     ELSE IF e2[1] > e1[1] THEN 1
     ELSE IF e1[2] > e2[2] THEN 0 - 1
     ELSE IF e2[2] > e1[2] THEN 1
     ELSE DetailedWalk(freq1, freq2, i + 1)

detailedCountback(p1, p2) ==
  DetailedWalk(SortedEntries(getScoreFrequency(p1)),
               SortedEntries(getScoreFrequency(p2)), 1)

\* arePlayersTied without the countback test
arePlayersTiedNoCountback(p1, p2) ==
  IF p1.totalPoints # p2.totalPoints THEN FALSE
  ELSE IF p1.totalSpending # p2.totalSpending THEN FALSE
  ELSE TRUE

arePlayersTied(p1, p2) ==
  IF p1.totalPoints # p2.totalPoints THEN FALSE
  ELSE IF p1.totalSpending # p2.totalSpending THEN FALSE
  ELSE IF countbackCompare(p1, p2) # 0 THEN FALSE
  ELSE TRUE

\* String.prototype.localeCompare on the names of NameList: the names differ
\* in their first letter, so collation order is the order of the list
NameKey(n) == CHOOSE i \in 1..Len(NameList) : NameList[i] = n
localeCompare(x, y) == Sign(NameKey(x) - NameKey(y))

\* compare with the spending level descending
compareSpendingDesc(a, b) ==
  IF a.totalPoints # b.totalPoints THEN b.totalPoints - a.totalPoints
  ELSE IF a.totalSpending # b.totalSpending THEN b.totalSpending - a.totalSpending
  ELSE IF countbackCompare(a, b) # 0 THEN countbackCompare(a, b)
  ELSE localeCompare(a.name, b.name)

\* compare without the name level
compareNoName(a, b) ==
  IF a.totalPoints # b.totalPoints THEN b.totalPoints - a.totalPoints
  ELSE IF a.totalSpending # b.totalSpending THEN a.totalSpending - b.totalSpending
  ELSE countbackCompare(a, b)

\* the comparator sortPlayers hands to Array.prototype.sort
compare(a, b) ==
  IF a.totalPoints # b.totalPoints THEN b.totalPoints - a.totalPoints
  ELSE IF a.totalSpending # b.totalSpending THEN a.totalSpending - b.totalSpending
  ELSE IF countbackCompare(a, b) # 0 THEN countbackCompare(a, b)
  ELSE localeCompare(a.name, b.name)

\* [...players].sort(compare): a stable insertion sort of the references
RECURSIVE InsertRef(_, _, _)
InsertRef(recs, s, x) ==
  IF s = <<>> THEN <<x>>
  ELSE IF compare(recs[s[Len(s)]], recs[x]) > 0
       THEN Append(InsertRef(recs, SubSeq(s, 1, Len(s) - 1), x), s[Len(s)])
       ELSE Append(s, x)

RECURSIVE SortRefs(_, _)
SortRefs(recs, n) ==
  IF n = 0 THEN <<>> ELSE InsertRef(recs, SortRefs(recs, n - 1), n)

\* RankWalk advancing the counter by one instead of to the position
RECURSIVE RankWalkDense(_, _, _, _)
RankWalkDense(recs, order, i, currentRank) ==
  IF i > Len(order) THEN <<>>
  ELSE LET current == recs[order[i]]
           nextRank ==
             IF i < Len(order)
             THEN LET next == recs[order[i + 1]]
                  IN IF current.totalPoints # next.totalPoints THEN currentRank + 1
                     ELSE IF current.totalSpending # next.totalSpending
                             \/ countbackCompare(current, next) # 0 THEN currentRank + 1
                     ELSE currentRank
             ELSE currentRank
       IN <<currentRank>> \o RankWalkDense(recs, order, i + 1, nextRank)

\* RankWalk without the countback test
RECURSIVE RankWalkNoCountback(_, _, _, _)
RankWalkNoCountback(recs, order, i, currentRank) ==
  IF i > Len(order) THEN <<>>
  ELSE LET current == recs[order[i]]
           nextRank ==
             IF i < Len(order)
             THEN LET next == recs[order[i + 1]]
                  IN IF current.totalPoints # next.totalPoints THEN i + 1
                     ELSE IF current.totalSpending # next.totalSpending THEN i + 1
                     ELSE currentRank
             ELSE currentRank
       IN <<currentRank>> \o RankWalkNoCountback(recs, order, i + 1, nextRank)

\* RankWalk advancing the counter to the 0-based index instead of index + 2
RECURSIVE RankWalkIndex(_, _, _, _)
RankWalkIndex(recs, order, i, currentRank) ==
  IF i > Len(order) THEN <<>>
  ELSE LET current == recs[order[i]]
           nextRank ==
             IF i < Len(order)
             THEN LET next == recs[order[i + 1]]
                  IN IF current.totalPoints # next.totalPoints THEN i - 1
                     ELSE IF current.totalSpending # next.totalSpending
                             \/ countbackCompare(current, next) # 0 THEN i - 1
                     ELSE currentRank
             ELSE currentRank
       IN <<currentRank>> \o RankWalkIndex(recs, order, i + 1, nextRank)

\* assignRanks: the rank written at 1-based position i, currentRank being the
\* counter on entry to the iteration
RECURSIVE RankWalk(_, _, _, _)
RankWalk(recs, order, i, currentRank) ==
  IF i > Len(order) THEN <<>>
  ELSE LET current == recs[order[i]]
           nextRank ==
             IF i < Len(order)
             THEN LET next == recs[order[i + 1]]
                  IN IF current.totalPoints # next.totalPoints THEN i + 1
                     ELSE IF current.totalSpending # next.totalSpending
                             \/ countbackCompare(current, next) # 0 THEN i + 1
                     ELSE currentRank
             ELSE currentRank
       IN <<currentRank>> \o RankWalk(recs, order, i + 1, nextRank)

\* assignRanks on an array sorted in place: the caller's array is reordered
assignRanksInPlace(recs, order) ==
  LET ranks == RankWalk(recs, order, 1, 1)
  IN [r \in 1..Len(recs) |-> [recs[order[r]] EXCEPT !.rank = {ranks[r]}]]

assignRanks(recs, order) ==
  LET ranks == RankWalk(recs, order, 1, 1)
      pos(r) == CHOOSE i \in 1..Len(order) : order[i] = r
  IN [r \in 1..Len(recs) |-> [recs[r] EXCEPT !.rank = {ranks[pos(r)]}]]

\* findTieGroups: the inner loop over j, for the group opened by position i;
\* the names of the members are added to processed as they are pushed
RECURSIVE GroupWalk(_, _, _, _, _, _)
GroupWalk(recs, order, i, j, group, processed) ==
  IF j > Len(order) THEN group
  ELSE IF recs[order[j]].name \notin processed /\ arePlayersTied(recs[order[i]], recs[order[j]])
       THEN GroupWalk(recs, order, i, j + 1, Append(group, order[j]),
                      processed \cup {recs[order[j]].name})
       ELSE GroupWalk(recs, order, i, j + 1, group, processed)

\* TieWalk keeping the groups of one member
RECURSIVE TieWalkSingletons(_, _, _, _, _)
TieWalkSingletons(recs, order, i, groups, processed) ==
  IF i > Len(order) THEN groups
  ELSE IF recs[order[i]].name \in processed
       THEN TieWalkSingletons(recs, order, i + 1, groups, processed)
       ELSE LET group == GroupWalk(recs, order, i, i + 1, <<order[i]>>,
                                   processed \cup {recs[order[i]].name})
            IN TieWalkSingletons(recs, order, i + 1, Append(groups, group),
                                 processed \cup {recs[group[k]].name : k \in 1..Len(group)})

\* findTieGroups: the outer loop over i
RECURSIVE TieWalk(_, _, _, _, _)
TieWalk(recs, order, i, groups, processed) ==
  IF i > Len(order) THEN groups
  ELSE IF recs[order[i]].name \in processed
       THEN TieWalk(recs, order, i + 1, groups, processed)
       ELSE LET group == GroupWalk(recs, order, i, i + 1, <<order[i]>>,
                                   processed \cup {recs[order[i]].name})
            IN TieWalk(recs, order, i + 1,
                       IF Len(group) > 1 THEN Append(groups, group) ELSE groups,
                       processed \cup {recs[group[k]].name : k \in 1..Len(group)})

findTieGroups(recs, order) == TieWalk(recs, order, 1, <<>>, {})

\* markTiedPlayers skipping the first member of every group
markTiedPlayersSkipFirst(recs, groups) ==
  LET members == UNION {{groups[g][k] : k \in 2..Len(groups[g])} : g \in 1..Len(groups)}
  IN [r \in 1..Len(recs) |->
        IF r \in members THEN [recs[r] EXCEPT !.isTied = {TRUE}] ELSE recs[r]]

\* markTiedPlayers: isTied = true on every member of every group
markTiedPlayers(recs, groups) ==
  LET members == UNION {{groups[g][k] : k \in 1..Len(groups[g])} : g \in 1..Len(groups)}
  IN [r \in 1..Len(recs) |->
        IF r \in members THEN [recs[r] EXCEPT !.isTied = {TRUE}] ELSE recs[r]]

\* Math.max(...scores) and Math.min(...scores) over a non-empty array
RECURSIVE MaxOf(_)
MaxOf(s) ==
  IF Len(s) = 1 THEN s[1]
  ELSE LET m == MaxOf(Tail(s)) IN IF Head(s) > m THEN Head(s) ELSE m

RECURSIVE MinOf(_)
MinOf(s) ==
  IF Len(s) = 1 THEN s[1]
  ELSE LET m == MinOf(Tail(s)) IN IF Head(s) < m THEN Head(s) ELSE m

Abs(n) == IF n < 0 THEN 0 - n ELSE n

RECURSIVE Gcd(_, _)
Gcd(a, b) == IF b = 0 THEN a ELSE Gcd(b, a % b)

\* the quotient n / d (d > 0) as a fraction in lowest terms
Divide(n, d) ==
  LET g == Gcd(Abs(n), d)
  IN [num |-> n \div g, den |-> d \div g]

\* getStats counting every record whose isTied is not false
getStatsNotFalse(ps) ==
  LET scores == [i \in 1..Len(ps) |-> ps[i].totalPoints]
  IN [totalPlayers |-> Len(ps),
      highestScore |-> MaxOf(scores),
      lowestScore |-> MinOf(scores),
      averageScore |-> Divide(Sum(scores), Len(ps)),
      tiedCount |-> Cardinality({i \in 1..Len(ps) : ps[i].isTied # {FALSE}})]

\* getStats over the array ps; filter(p => p.isTied) keeps the records whose
\* isTied is true (absent is falsy)
getStats(ps) ==
  LET scores == [i \in 1..Len(ps) |-> ps[i].totalPoints]
  IN [totalPlayers |-> Len(ps),
      highestScore |-> MaxOf(scores),
      lowestScore |-> MinOf(scores),
      averageScore |-> Divide(Sum(scores), Len(ps)),
      tiedCount |-> Cardinality({i \in 1..Len(ps) : ps[i].isTied = {TRUE}})]

\* ------------------------------------------------------------ ranking run
\* ExcelReader.mergeTables: one record per row, totals summed, no rank, no isTied
NewPlayer(name, scores, spending) ==
  [name |-> name, eventScores |-> scores, eventSpending |-> spending,
   totalPoints |-> Sum(scores), totalSpending |-> Sum(spending),
   rank |-> {}, isTied |-> {}]

Init ==
  /\ pc = "parse"
  /\ players = <<>>
  /\ sorted = <<>>
  /\ tieGroups = <<>>
  /\ cbA = <<>> /\ cbB = <<>> /\ cbRes = 0 /\ zeros = 0
  /\ stats = <<>>
  /\ cbDetailed = 0

\* one iteration of the loop of mergeTables: the spending row is the first row
\* of the spending table under that name, so rows of one name share it
MergeRow ==
  /\ pc = "parse"
  /\ Len(players) < MaxPlayers
  /\ \E name \in Names, scores \in ScoreRows, spending \in SpendingRows :
       /\ \A r \in 1..Len(players) :
            players[r].name = name => players[r].eventSpending = spending
       /\ players' = Append(players, NewPlayer(name, scores, spending))
  /\ UNCHANGED <<pc, sorted, tieGroups, cbA, cbB, cbRes, zeros, stats, cbDetailed>>

\* sortPlayers: sort a copy of the array, assignRanks, markTiedPlayers.
\* app.ts main refuses an empty table before it calls sortPlayers; the array
\* is either freshly merged or handed over again by the caller ("rerun")
SortPlayers ==
  /\ pc \in {"parse", "rerun"}
  /\ Len(players) > 0
  /\ \E order \in {SortRefs(players, Len(players))} :
       \E ranked \in {assignRanks(players, order)} :
         \E groups \in {findTieGroups(ranked, order)} :
           /\ sorted' = order
           /\ tieGroups' = groups
           /\ players' = markTiedPlayers(ranked, groups)
  /\ pc' = "sorted"
  /\ UNCHANGED <<cbA, cbB, cbRes, zeros, stats, cbDetailed>>

\* main, step 5: getStats over the array sortPlayers returned
GetStats ==
  /\ pc = "sorted"
  /\ stats' = getStats([i \in 1..Len(sorted) |-> players[sorted[i]]])
  /\ pc' = "stats"
  /\ UNCHANGED <<players, sorted, tieGroups, cbA, cbB, cbRes, zeros, cbDetailed>>

Next == MergeRow \/ SortPlayers \/ GetStats

Spec == Init /\ [][Next]_vars

\* ------------------------------------------------------------- ragged run
\* parseTableRows reads the cells a row has (Math.min(eventColumns,
\* row.length)), so a spending row may be shorter than the points row
RaggedSpendingRows == {<<0, 0>>, <<1>>}

\* one iteration of the loop of mergeTables over rows of any length: the
\* record is pushed whatever the lengths of its two arrays
MergeRaggedRow ==
  /\ pc = "parse"
  /\ Len(players) < MaxPlayers
  /\ \E name \in Names, scores \in ScoreRows, spending \in RaggedSpendingRows :
       /\ \A r \in 1..Len(players) :
            players[r].name = name => players[r].eventSpending = spending
       /\ players' = Append(players, NewPlayer(name, scores, spending))
  /\ UNCHANGED <<pc, sorted, tieGroups, cbA, cbB, cbRes, zeros, stats, cbDetailed>>

RaggedNext == MergeRaggedRow \/ SortPlayers

RaggedSpec == Init /\ [][RaggedNext]_vars

\* --------------------------------------------------------------- second run
\* sortPlayers takes any Player[]; rank and isTied are fields of Player, so a
\* caller may hand over records that an earlier call has annotated. Here the
\* caller removes one record from the array and sorts the rest again
WithoutRow(recs, k) == SubSeq(recs, 1, k - 1) \o SubSeq(recs, k + 1, Len(recs))

DropPlayer ==
  /\ pc = "sorted"
  /\ Len(players) > 1
  /\ \E k \in 1..Len(players) : players' = WithoutRow(players, k)
  /\ pc' = "rerun"
  /\ sorted' = <<>>
  /\ tieGroups' = <<>>
  /\ UNCHANGED <<cbA, cbB, cbRes, zeros, stats, cbDetailed>>

RerunNext == MergeRow \/ SortPlayers \/ DropPlayer

RerunSpec == Init /\ [][RerunNext]_vars

\* --------------------------------------------------------- comparator run
\* countbackCompare reads eventScores only; the two records are rows of any
\* length up to CbLen, of any parsed score
RECURSIVE SeqsUpTo(_, _)
SeqsUpTo(S, n) ==
  IF n = 0 THEN {<<>>}
  ELSE LET shorter == SeqsUpTo(S, n - 1)
       IN shorter \cup {Append(s, x) : s \in {t \in shorter : Len(t) = n - 1}, x \in S}

CbRecord(name, scores) == NewPlayer(name, scores, [e \in 1..Len(scores) |-> 0])

\* eventScores with a 0 inserted before 1-based position k (k = Len + 1 appends)
InsertZeroAt(p, k) ==
  LET s == p.eventScores
  IN CbRecord(p.name, SubSeq(s, 1, k - 1) \o <<0>> \o SubSeq(s, k, Len(s)))

CbInit ==
  /\ pc = "cb"
  /\ players = <<>> /\ sorted = <<>> /\ tieGroups = <<>>
  /\ \E sa \in SeqsUpTo(Scores, CbLen), sb \in SeqsUpTo(Scores, CbLen) :
       /\ cbA = CbRecord(NameList[1], sa)
       /\ cbB = CbRecord(NameList[2], sb)
  /\ cbRes = 0
  /\ zeros = 0
  /\ stats = <<>>
  /\ cbDetailed = 0

\* the pair is compared once by each of the two exported implementations
CbCompare ==
  /\ pc = "cb"
  /\ cbRes' = countbackCompare(cbA, cbB)
  /\ cbDetailed' = detailedCountback(cbA, cbB)
  /\ pc' = "cbdone"
  /\ UNCHANGED <<players, sorted, tieGroups, cbA, cbB, zeros, stats>>

CbPadA ==
  /\ pc = "cbdone"
  /\ zeros < MaxZeros
  /\ \E k \in 1..(Len(cbA.eventScores) + 1) : cbA' = InsertZeroAt(cbA, k)
  /\ zeros' = zeros + 1
  /\ UNCHANGED <<pc, players, sorted, tieGroups, cbB, cbRes, stats, cbDetailed>>

CbPadB ==
  /\ pc = "cbdone"
  /\ zeros < MaxZeros
  /\ \E k \in 1..(Len(cbB.eventScores) + 1) : cbB' = InsertZeroAt(cbB, k)
  /\ zeros' = zeros + 1
  /\ UNCHANGED <<pc, players, sorted, tieGroups, cbA, cbRes, stats, cbDetailed>>

CbNext == CbCompare \/ CbPadA \/ CbPadB

CbSpec == CbInit /\ [][CbNext]_vars

\* ================================================================ properties
Ranked == pc = "sorted"

UniqueNames ==
  \A r, q \in 1..Len(players) : r # q => players[r].name # players[q].name

\* a and b agree on the three substantive levels
FullyTied(a, b) ==
  /\ a.totalPoints = b.totalPoints
  /\ a.totalSpending = b.totalSpending
  /\ countbackCompare(a, b) = 0

\* a is placed above b by one of the three substantive levels
RanksAbove(a, b) ==
  \/ a.totalPoints > b.totalPoints
  \/ a.totalPoints = b.totalPoints /\ a.totalSpending < b.totalSpending
  \/ /\ a.totalPoints = b.totalPoints
     /\ a.totalSpending = b.totalSpending
     /\ countbackCompare(a, b) < 0

\* the record at 1-based position i of the returned array
Placed(i) == players[sorted[i]]

\* C1: in the array sortPlayers returns, every competitor placed before
\* another has more points; or equal points and less spending; or both equal
\* and a winning countback; or all three equal and a name at or before.
C1_SortOrder ==
  Ranked =>
    \A i, j \in 1..Len(sorted) :
      i < j =>
        \/ RanksAbove(Placed(i), Placed(j))
        \/ /\ FullyTied(Placed(i), Placed(j))
           /\ localeCompare(Placed(i).name, Placed(j).name) <= 0

\* three competitors of equal points, reordered by the run: the first pair
\* decided by spending, the second by countback
C1_Witness ==
  /\ Ranked
  /\ Len(sorted) = 3
  /\ sorted # <<1, 2, 3>>
  /\ Placed(1).totalPoints = Placed(3).totalPoints
  /\ Placed(1).totalSpending < Placed(2).totalSpending
  /\ Placed(2).totalSpending = Placed(3).totalSpending
  /\ countbackCompare(Placed(2), Placed(3)) < 0

\* position i differs from its predecessor on one of the three levels
DiffersFromPredecessor(i) ==
  \/ Placed(i).totalPoints # Placed(i - 1).totalPoints
  \/ Placed(i).totalSpending # Placed(i - 1).totalSpending
  \/ countbackCompare(Placed(i - 1), Placed(i)) # 0

\* C3: the first competitor of the output has rank 1; a later one at position
\* i has rank i if it differs from its predecessor in points, in spending or
\* under countback, and its predecessor's rank otherwise.
C3_RankByPosition ==
  Ranked =>
    /\ Placed(1).rank = {1}
    /\ \A i \in 2..Len(sorted) :
         IF DiffersFromPredecessor(i)
         THEN Placed(i).rank = {i}
         ELSE Placed(i).rank = Placed(i - 1).rank

\* ranks 1, 1, 3: one rank inherited, the next taken from the position
C3_Witness ==
  /\ Ranked
  /\ Len(sorted) = 3
  /\ ~DiffersFromPredecessor(2)
  /\ DiffersFromPredecessor(3)
  /\ Placed(2).rank = {1}
  /\ Placed(3).rank = {3}

\* C4: with unique names, the rank of a competitor is 1 plus the number of
\* competitors of the input placed strictly above it by the three levels
\* (so ties share a rank and the next rank skips), whatever the names.
C4_CompetitionRank ==
  (Ranked /\ UniqueNames) =>
    \A r \in 1..Len(players) :
      players[r].rank =
        {1 + Cardinality({q \in 1..Len(players) : RanksAbove(players[q], players[r])})}

\* unique names, ranks 3, 1, 1 in input order: the two leaders share rank 1,
\* entered against the order of their names, and the third rank is skipped to
C4_Witness ==
  /\ Ranked
  /\ UniqueNames
  /\ Len(players) = 3
  /\ players[1].rank = {3}
  /\ players[2].rank = {1}
  /\ players[3].rank = {1}
  /\ localeCompare(players[2].name, players[3].name) > 0
  /\ players[2].eventScores # players[3].eventScores

\* C5: with unique names, a competitor is flagged isTied = true exactly when
\* another competitor of the input has the same points, the same spending
\* and a countback of 0 against it.
C5_TiedFlag ==
  (Ranked /\ UniqueNames) =>
    \A r \in 1..Len(players) :
      (players[r].isTied = {TRUE}) <=>
        (\E q \in 1..Len(players) : q # r /\ FullyTied(players[q], players[r]))

\* unique names: two competitors flagged, and a third of the same points and
\* spending that countback separates from them and that is not flagged
C5_Witness ==
  /\ Ranked
  /\ UniqueNames
  /\ Len(players) = 3
  /\ players[1].isTied = {TRUE}
  /\ players[3].isTied = {TRUE}
  /\ players[2].isTied = {}
  /\ players[2].totalPoints = players[1].totalPoints
  /\ players[2].totalSpending = players[1].totalSpending

\* the records of group g
Members(g) == {tieGroups[g][k] : k \in 1..Len(tieGroups[g])}

\* disjoint groups of two or more mutually fully tied records that hold every
\* fully tied pair
TieGroupsPartition ==
  /\ \A g \in 1..Len(tieGroups) :
       /\ Len(tieGroups[g]) >= 2
       /\ Cardinality(Members(g)) = Len(tieGroups[g])
       /\ \A r, q \in Members(g) : FullyTied(players[r], players[q])
  /\ \A g, h \in 1..Len(tieGroups) : g # h => Members(g) \cap Members(h) = {}
  /\ \A r, q \in 1..Len(players) :
       (r # q /\ FullyTied(players[r], players[q])) =>
         \E g \in 1..Len(tieGroups) : r \in Members(g) /\ q \in Members(g)

\* C6 as stated: findTieGroups returns pairwise disjoint groups of size at
\* least 2 whose members are pairwise fully tied, and every two fully tied
\* competitors are in the same group.
C6_AsStated == Ranked => TieGroupsPartition

\* C6, amended: the same, for competitors with unique names.
C6_TieGroups == (Ranked /\ UniqueNames) => TieGroupsPartition

\* unique names, one group of three whose first two members have different
\* score rows, returned for an input entered against the sorted order
C6_Witness ==
  /\ Ranked
  /\ UniqueNames
  /\ Len(tieGroups) = 1
  /\ Len(tieGroups[1]) = 3
  /\ sorted # <<1, 2, 3>>
  /\ players[tieGroups[1][1]].eventScores # players[tieGroups[1][2]].eventScores

\* C7: on competitors with distinct names the comparator of sortPlayers is a
\* strict total order: never 0 for two of them, opposite signs when the
\* arguments are swapped, and transitive.
C7_StrictTotalOrder ==
  UniqueNames =>
    \A r, q, t \in 1..Len(players) :
      LET a == players[r]
          b == players[q]
          c == players[t]
      IN /\ (r # q) => compare(a, b) # 0
         /\ Sign(compare(a, b)) = 0 - Sign(compare(b, a))
         /\ (compare(a, b) < 0 /\ compare(b, c) < 0) => compare(a, c) < 0

\* three competitors of distinct names sorted by the comparator: the first
\* pair is decided by countback, the second by name alone
C7_Witness ==
  /\ Ranked
  /\ UniqueNames
  /\ Len(sorted) = 3
  /\ Placed(1).totalPoints = Placed(2).totalPoints
  /\ Placed(1).totalSpending = Placed(2).totalSpending
  /\ countbackCompare(Placed(1), Placed(2)) < 0
  /\ FullyTied(Placed(2), Placed(3))
  /\ compare(Placed(1), Placed(2)) < 0
  /\ compare(Placed(2), Placed(3)) < 0

\* two records have the same rank exactly when they are fully tied, and the
\* members of a tie group share one rank
RankAgreesWithTies ==
  /\ \A r, q \in 1..Len(players) :
       r # q => ((players[r].rank = players[q].rank)
                   <=> FullyTied(players[r], players[q]))
  /\ \A g \in 1..Len(tieGroups) :
       \A r, q \in Members(g) : players[r].rank = players[q].rank

\* a record is flagged exactly when another record has its rank
FlagAgreesWithRank ==
  \A r \in 1..Len(players) :
    (players[r].isTied = {TRUE}) <=>
      (\E q \in 1..Len(players) : q # r /\ players[q].rank = players[r].rank)

\* C10 as stated: two competitors of a run have the same rank exactly when
\* they are fully tied, the members of a tie group share a rank, and a
\* competitor is flagged isTied exactly when another competitor has its rank.
C10_AsStated == Ranked => (RankAgreesWithTies /\ FlagAgreesWithRank)

\* C10, amended: the rank part as stated; the isTied part for competitors
\* with unique names.
C10_RankAndTies ==
  Ranked => (RankAgreesWithTies /\ (UniqueNames => FlagAgreesWithRank))

\* unique names: two competitors share rank 2 and are flagged, the leader has
\* rank 1 alone and is not flagged
C10_Witness ==
  /\ Ranked
  /\ UniqueNames
  /\ Len(players) = 3
  /\ players[2].rank = {1} /\ players[2].isTied = {}
  /\ players[1].rank = {2} /\ players[1].isTied = {TRUE}
  /\ players[3].rank = {2} /\ players[3].isTied = {TRUE}
  /\ Len(tieGroups) = 1

\* the descending profile of the scores that are not zero
IsNonZero(x) == x # 0
NonZeroProfile(p) == SortDesc(SelectSeq(p.eventScores, IsNonZero))

\* the decision of position i of two profiles, a shorter profile supplying 0:
\* the higher score wins; on equal scores that are not zero, the profile with
\* more occurrences of the score wins; 0 when the position does not decide
Decision(s1, s2, i) ==
  LET x == IF i <= Len(s1) THEN s1[i] ELSE 0
      y == IF i <= Len(s2) THEN s2[i] ELSE 0
  IN IF x > y THEN 0 - 1
     ELSE IF y > x THEN 1
     ELSE IF x = 0 THEN 0
     ELSE IF Occurrences(s1, x) > Occurrences(s2, x) THEN 0 - 1
     ELSE IF Occurrences(s2, x) > Occurrences(s1, x) THEN 1
     ELSE 0

\* the decision of the first deciding position, 0 when no position decides
FirstDecision(s1, s2) ==
  LET n == IF Len(s1) > Len(s2) THEN Len(s1) ELSE Len(s2)
      deciding == {i \in 1..n : Decision(s1, s2, i) # 0}
  IN IF deciding = {} THEN 0
     ELSE Decision(s1, s2, CHOOSE i \in deciding : \A k \in deciding : i <= k)

\* C2: countbackCompare returns the decision of the first deciding position
\* of the two descending profiles of non-zero scores, and 0 exactly when no
\* position decides.
C2_AsStated ==
  pc = "cbdone" =>
    countbackCompare(cbA, cbB) = FirstDecision(NonZeroProfile(cbA), NonZeroProfile(cbB))

\* C8: countbackCompare(a, b) = -countbackCompare(b, a) for every pair,
\* profiles of different lengths and empty profiles included.
C8_Antisymmetric ==
  pc = "cbdone" => countbackCompare(cbA, cbB) = 0 - countbackCompare(cbB, cbA)

\* the second record wins against an empty profile, and the first record
\* wins when the arguments are swapped
C8_Witness ==
  /\ pc = "cbdone"
  /\ zeros = 0
  /\ Profile(cbA) = <<>>
  /\ Len(Profile(cbB)) = 2
  /\ cbRes = 1
  /\ countbackCompare(cbB, cbA) = 0 - 1

\* C9: zeros appended to, or inserted anywhere into, the eventScores of
\* either competitor leave the result of countbackCompare unchanged.
C9_ZeroPadding ==
  pc = "cbdone" => countbackCompare(cbA, cbB) = cbRes

\* a comparison decided at the second position of the profiles, after a zero
\* was inserted between the two scores of the first record
C9_Witness ==
  /\ pc = "cbdone"
  /\ zeros = 1
  /\ cbRes = 0 - 1
  /\ Len(cbA.eventScores) = 3
  /\ cbA.eventScores[1] > 0
  /\ cbA.eventScores[2] = 0
  /\ cbA.eventScores[3] > 0
  /\ Len(cbB.eventScores) = 2
  /\ cbB.eventScores[1] = cbA.eventScores[1]

\* ------------------------------------------------------------------- C11
\* C11: along the array returned by sortPlayers the ranks never decrease, and
\* the rank of the record at 1-based position i is at most i + 1
C11_RankMonotone ==
  Ranked =>
    \A i \in 1..Len(sorted) :
      /\ Placed(i).rank # {}
      /\ \A rk \in Placed(i).rank :
           /\ rk <= i + 1
           /\ i > 1 => \A prev \in Placed(i - 1).rank : prev <= rk

\* three ranked records: the first alone, the other two sharing rank 2
C11_Witness ==
  /\ Ranked
  /\ Len(sorted) = 3
  /\ Placed(1).rank = {1}
  /\ Placed(2).rank = {2}
  /\ Placed(3).rank = {2}
  /\ Placed(2).eventScores # Placed(3).eventScores

\* ------------------------------------------------------------------- C12
\* a step that is one call of sortPlayers
SortStep == pc # "sorted" /\ pc' = "sorted"

\* the returned array holds every record of the input exactly once
ReturnsPermutation ==
  /\ Len(sorted') = Len(players)
  /\ {sorted'[i] : i \in 1..Len(sorted')} = 1..Len(players)

\* the caller's array keeps its length and order, and every record its data
InputKept ==
  /\ Len(players') = Len(players)
  /\ \A r \in 1..Len(players) :
       /\ players'[r].name = players[r].name
       /\ players'[r].eventScores = players[r].eventScores
       /\ players'[r].eventSpending = players[r].eventSpending
       /\ players'[r].totalPoints = players[r].totalPoints
       /\ players'[r].totalSpending = players[r].totalSpending

\* C12: sortPlayers, with the countbackCompare and findTieGroups calls it
\* makes, only writes rank and isTied: the returned array is a permutation of
\* the input records, the caller's array keeps its order, and name,
\* eventScores, eventSpending, totalPoints and totalSpending are unchanged
C12_Frame == [][SortStep => (ReturnsPermutation /\ InputKept)]_vars

\* a run that moved the third row of the table to the top and flagged a tie
C12_Witness ==
  /\ Ranked
  /\ Len(sorted) = 3
  /\ sorted[1] = 3
  /\ \E r \in 1..3 : players[r].isTied = {TRUE}
  /\ \E r \in 1..3 : players[r].isTied = {}

\* ------------------------------------------------------------------- C13
\* the two per-event arrays of the record have different lengths
Mismatched(p) == Len(p.eventScores) # Len(p.eventSpending)

\* C13 as stated: a table holding a record with mismatched eventScores and
\* eventSpending is never ranked, and none of its records gets rank or isTied
C13_AsStated ==
  (\E r \in 1..Len(players) : Mismatched(players[r])) =>
    /\ ~Ranked
    /\ \A r \in 1..Len(players) : players[r].rank = {} /\ players[r].isTied = {}

\* ------------------------------------------------------------------- C14
\* record r of the table is a member of one of the groups of findTieGroups
InTieGroup(r) == \E g \in 1..Len(tieGroups) : r \in Members(g)

HasRank(r) == \E k \in 1..Len(players) : players[r].rank = {k}

\* C14 as stated: after sortPlayers every record has a rank >= 1 and a
\* boolean isTied, which is false on every record outside the tie groups
C14_AsStated ==
  Ranked =>
    \A r \in 1..Len(players) :
      /\ HasRank(r)
      /\ players[r].isTied \in {{TRUE}, {FALSE}}
      /\ ~InTieGroup(r) => players[r].isTied = {FALSE}

\* ------------------------------------------------------------------- C15
HasStats == pc = "stats"

PointsOf == [r \in 1..Len(players) |-> players[r].totalPoints]

\* C15: for a non-empty ranked array getStats returns the number of records,
\* the maximum and the minimum totalPoints, their sum divided by the number
\* of records, and the number of records with isTied = true; the maximum is
\* the totalPoints of the first record and the minimum that of the last, and
\* for one record the three scores equal its totalPoints
C15_Stats ==
  HasStats =>
    /\ stats.totalPlayers = Len(players)
    /\ \A r \in 1..Len(players) :
         stats.lowestScore <= PointsOf[r] /\ PointsOf[r] <= stats.highestScore
    /\ \E r \in 1..Len(players) : PointsOf[r] = stats.highestScore
    /\ \E r \in 1..Len(players) : PointsOf[r] = stats.lowestScore
    /\ stats.averageScore.den > 0
    /\ stats.averageScore.num * Len(players) = Sum(PointsOf) * stats.averageScore.den
    /\ stats.tiedCount = Cardinality({r \in 1..Len(players) : players[r].isTied = {TRUE}})
    /\ stats.highestScore = Placed(1).totalPoints
    /\ stats.lowestScore = Placed(Len(sorted)).totalPoints
    /\ Len(players) = 1 =>
         /\ stats.highestScore = players[1].totalPoints
         /\ stats.lowestScore = players[1].totalPoints
         /\ stats.averageScore = [num |-> players[1].totalPoints, den |-> 1]

\* three records, two of them tied, totals 2, 2 and 0: the average is 4/3
C15_Witness ==
  /\ HasStats
  /\ stats.totalPlayers = 3
  /\ stats.highestScore = 2
  /\ stats.lowestScore = 0
  /\ stats.averageScore = [num |-> 4, den |-> 3]
  /\ stats.tiedCount = 2

\* ------------------------------------------------------------------- C16
\* C16 as stated: whatever isTied a record carried on entry, after
\* sortPlayers it is flagged only if another record of the current array is
\* fully tied with it
C16_AsStated ==
  Ranked =>
    \A r \in 1..Len(players) :
      players[r].isTied = {TRUE} =>
        \E q \in 1..Len(players) : q # r /\ FullyTied(players[r], players[q])

\* ------------------------------------------------------------------- C17
\* plain lexicographic comparison of two descending sequences, the shorter
\* one padded with zeros: -1 when the first is ahead, 1 when the second is
RECURSIVE LexCompare(_, _)
LexCompare(s1, s2) ==
  IF s1 = <<>> /\ s2 = <<>> THEN 0
  ELSE LET x == IF s1 = <<>> THEN 0 ELSE Head(s1)
           y == IF s2 = <<>> THEN 0 ELSE Head(s2)
       IN IF x > y THEN 0 - 1
          ELSE IF y > x THEN 1
          ELSE LexCompare(IF s1 = <<>> THEN <<>> ELSE Tail(s1),
                          IF s2 = <<>> THEN <<>> ELSE Tail(s2))

\* a and b hold every positive score the same number of times
SamePositiveScores(a, b) ==
  \A v \in Scores :
    v > 0 => Occurrences(a.eventScores, v) = Occurrences(b.eventScores, v)

\* the third records of the transitivity test: rows of one and two parsed
\* scores, with repeated, zero and negative scores among them
ThirdRows ==
  {<<>>, <<1>>, <<2>>, <<3>>, <<1, 1>>, <<1, 2>>, <<2, 1>>, <<2, 2>>,
   <<3, 1>>, <<2, 3>>, <<3, 3>>, <<0, 2>>, <<0 - 1, 2>>}
ThirdRecords == {CbRecord(NameList[3], sc) : sc \in ThirdRows}

\* countbackCompare orders a, b and c consistently
TransitiveOn(a, b, c) ==
  \A ab \in {countbackCompare(a, b)}, bc \in {countbackCompare(b, c)},
     ac \in {countbackCompare(a, c)} :
    /\ (ab = 0 /\ bc = 0) => ac = 0
    /\ (ab <= 0 /\ bc <= 0) => ac <= 0
    /\ (ab < 0 /\ bc <= 0) => ac < 0
    /\ (ab <= 0 /\ bc < 0) => ac < 0

\* C17: countbackCompare equals the lexicographic comparison of the two
\* descending zero-padded profiles of positive scores, so it is 0 exactly
\* when the two records hold the same positive scores the same number of
\* times; "countbackCompare = 0" is reflexive, symmetric and transitive, and
\* countbackCompare is transitive
C17_Lexicographic ==
  (pc = "cbdone" /\ zeros = 0) =>
    /\ cbRes = LexCompare(Profile(cbA), Profile(cbB))
    /\ cbRes = 0 <=> SamePositiveScores(cbA, cbB)
    /\ cbRes = 0 => countbackCompare(cbB, cbA) = 0
    /\ countbackCompare(cbA, cbA) = 0
    /\ \A c \in ThirdRecords :
         TransitiveOn(cbA, cbB, c) /\ TransitiveOn(cbA, c, cbB) /\ TransitiveOn(c, cbA, cbB)

\* the first position holds equal scores that cbA holds twice and cbB once,
\* so the occurrence step decides for cbA where position 2 would
C17_Witness ==
  /\ pc = "cbdone"
  /\ zeros = 0
  /\ cbRes = 0 - 1
  /\ Profile(cbA) = <<2, 2>>
  /\ Profile(cbB) = <<2, 1>>

\* ------------------------------------------------------------------- C18
\* C18: detailedCountback, which compares the (score, count) entries of the
\* distinct positive scores in descending score order, returns what
\* countbackCompare returns, for every pair of records
C18_SameResult ==
  /\ pc = "cbdone" /\ zeros = 0 => cbDetailed = cbRes
  /\ detailedCountback(cbA, cbB) = countbackCompare(cbA, cbB)
  /\ detailedCountback(cbB, cbA) = countbackCompare(cbB, cbA)

\* both implementations decide for cbB on the count of the top score
C18_Witness ==
  /\ pc = "cbdone"
  /\ zeros = 0
  /\ cbA.eventScores = <<1, 2>>
  /\ cbB.eventScores = <<2, 2>>
  /\ cbRes = 1
  /\ cbDetailed = 1

====
